---- MODULE Spec2Model ----
(***************************************************************************)
(* Verification model of the pagination layer of couchdb-python:           *)
(*   - Find / FindQuery / FindResponse / FindIterator                      *)
(*     (couchdb/client/find/*.py): bookmark based pagination of _find;     *)
(*   - Database.iterview (couchdb/client.py): batched view iteration.      *)
(* The HTTP server is the environment.  A Mango server holds nrows         *)
(* matching rows, numbered 1..nrows in result order; a bookmark is the     *)
(* number of rows delivered before the page that follows it.               *)
(***************************************************************************)
EXTENDS Integers, Sequences, FiniteSets, TLC

\* Python None, for fields whose other values are integers: a value that no
\* integer of the model takes.
None == -999

\* The page size CouchDB applies when a query has no limit
\* (`self.find.query.get('limit') or 25`).
DefaultLimit == 25

\* Bounds of the model.
MaxRows == 3
MaxLimit == 2
MaxFailures == 1
MaxDirect == 1
MaxViewRows == 5
MaxBatch == 3
MaxViewLimit == 5
MaxSkip == 1
MaxLines == 4
MaxStrLen == 2
MaxNum == 10
MaxOptions == 2
MaxObjects == 3

\* Row counts of the Mango server: small ones, and the ones around a full
\* default page.
RowCounts == (0..MaxRows) \cup {DefaultLimit, DefaultLimit + 1}

\* The two FindIterator objects created from one Find.
Iterators == {"it1", "it2"}

Min(a, b) == IF a <= b THEN a ELSE b

\* A Python dict is a function from its keys to its values.
EmptyDict == [k \in {} |-> None]

DictWithout(d, keys) == [k \in (DOMAIN d) \ keys |-> d[k]]

\* dict.get(key) for keys with natural-number values.
DictGet(d, key) == IF key \in DOMAIN d THEN d[key] ELSE None

(***************************************************************************)
(* FindQuery                                                               *)
(***************************************************************************)
\* Values of `sort`: None, one field-direction pair (a dict), a list of pairs.
NoSort == [t |-> "none"]

SortPair(name) == [t |-> "dict", v |-> name]

SortList(pairs) == [t |-> "list", v |-> pairs]

\* Python truthiness of a sort value.
Truthy(sort) == sort.t = "dict" \/ (sort.t = "list" /\ sort.v # <<>>)

\* FindQuery.__init__(selector, sort=None, **options)
FindQueryInit(selector, sort, options) ==
    LET opts == IF Truthy(sort)
                THEN ("sort" :> (IF sort.t = "dict" THEN SortList(<<sort>>) ELSE sort))
                     @@ options
                ELSE options
    IN  ("selector" :> selector) @@ opts

\* FindQuery(**query) that passes the named parameters on and loses the options.
FindQueryCopyNoOptions(q) ==
    FindQueryInit(q["selector"],
                  IF "sort" \in DOMAIN q THEN q["sort"] ELSE NoSort,
                  EmptyDict)

\* FindQuery(**query): selector and sort are the named parameters, the other
\* keys are the options.
FindQueryCopy(q) ==
    FindQueryInit(q["selector"],
                  IF "sort" \in DOMAIN q THEN q["sort"] ELSE NoSort,
                  DictWithout(q, {"selector", "sort"}))

\* What `del self[name]` raises when the key is absent.
KeyError == [error |-> "KeyError"]

\* The bookmark property setter.
SetBookmark(q, value) ==
    IF value = None
    THEN IF "bookmark" \in DOMAIN q THEN DictWithout(q, {"bookmark"}) ELSE KeyError
    ELSE ("bookmark" :> value) @@ q

(***************************************************************************)
(* State                                                                   *)
(***************************************************************************)
VARIABLES
    query,          \* Find.query: the caller's query
    auto_paginate,  \* Find.auto_paginate
    nrows,          \* server: number of rows matching the selector
    srvBookmark,    \* server: whether its responses carry a bookmark
    its,            \* the FindIterator objects: alive, bookmark, queue, hasMorePages
    call,           \* the call in progress, blocked in session.post, or idle
    failures,       \* number of failed requests so far
    hist,           \* per iterator: what a caller has observed so far
    vrows,          \* server: number of rows of the view
    vdup,           \* server: whether consecutive rows of the view share a key
    gen,            \* the generator returned by Database.iterview
    vlog,           \* iterview: arguments, requests sent and rows yielded so far
    stream,         \* server: the lines of the body answering _changes
    feed,           \* the generator returned by Database._changes, and its body
    events,         \* _changes: the documents yielded so far
    fq,             \* a FindQuery object in a caller's hands
    eopts,          \* the options handed to _encode_view_options
    eout,           \* what _encode_view_options returned
    lookup_table,   \* CouchDBException.lookup_table
    exc,            \* the last classification: its input and what came of it
    vres,           \* the ViewResults objects
    vreqs,          \* the number of requests made for each ViewResults object
    vstatus,        \* server: how it answers view requests
    vrlast,         \* the last operation on a ViewResults object
    sdoc,           \* server: a document of the database
    delop,          \* a `del db[id]` in progress
    getr            \* the last Database.get call

findVars == <<query, auto_paginate, nrows, srvBookmark, its, call, failures, hist>>

viewVars == <<vrows, vdup, gen, vlog>>

feedVars == <<stream, feed, events>>

fqVars == <<fq>>

encVars == <<eopts, eout>>

excVars == <<lookup_table, exc>>

vrVars == <<vres, vreqs, vstatus, vrlast>>

dbVars == <<sdoc, delop, getr>>

vars == <<query, auto_paginate, nrows, srvBookmark, its, call, failures, hist,
          vrows, vdup, gen, vlog, stream, feed, events, fq, eopts, eout,
          lookup_table, exc, vres, vreqs, vstatus, vrlast, sdoc, delop, getr>>

\* The record of the last operation on a FindQuery object: the dict before
\* it, the property assigned (or "init"), whether None was assigned, and the
\* sort value supplied.
NoQueryOp == [op |-> "none", pre |-> EmptyDict, unset |-> FALSE, sort |-> NoSort]

\* No FindQuery object built yet.
NoQueryObject == [pc |-> "none", d |-> EmptyDict, error |-> "none", last |-> NoQueryOp]

\* _encode_view_options not called yet.
NoEncodeResult == [pc |-> "none", input |-> EmptyDict, retval |-> EmptyDict]

Idle == [op |-> "idle", it |-> "none", req |-> EmptyDict]

\* A FindIterator before __init__ has run.
NoIterator == [alive |-> FALSE, bookmark |-> None, queue |-> <<>>, hasMorePages |-> FALSE]

\* The record of one next() call: the iterator at entry, the request bodies
\* posted, whether a request failed, and how the call ended.
NoNextCall == [pre |-> NoIterator, preBookmark |-> None, reqs |-> <<>>, failed |-> FALSE,
               fetched |-> FALSE, page |-> <<>>, outcome |-> "none", row |-> None]

NoHistory == [nreq |-> 0, first |-> <<>>, returned |-> <<>>, ended |-> FALSE,
              stops |-> 0, page |-> <<>>, pageBookmark |-> None, pages |-> 0, fetched |-> <<>>,
              direct |-> 0, overlap |-> FALSE, last |-> NoNextCall]

(***************************************************************************)
(* The Mango server (environment)                                          *)
(***************************************************************************)
\* The JSON body answering a POST of query q to _find: the next
\* min(limit, remaining) rows after the bookmark.
ServerPage(q) ==
    LET start == IF "bookmark" \in DOMAIN q THEN q["bookmark"] ELSE 0
        lim   == IF "limit" \in DOMAIN q THEN q["limit"] ELSE DefaultLimit
        end   == Min(start + lim, nrows)
    IN  [docs     |-> [k \in 1..(end - start) |-> start + k],
         bookmark |-> IF srvBookmark THEN end ELSE None]

(***************************************************************************)
(* FindResponse                                                            *)
(***************************************************************************)
\* FindResponse.__init__(response, wrapper, page_size=25)
FindResponse(response, page_size) ==
    [docs          |-> response.docs,
     bookmark      |-> response.bookmark,
     count         |-> Len(response.docs),
     has_next_page |-> response.bookmark # None /\ Len(response.docs) = page_size]

(***************************************************************************)
(* Find                                                                    *)
(***************************************************************************)
\* The body Find.execute posts for a bookmark.
ExecuteBody(bookmark) ==
    IF bookmark = None THEN query ELSE SetBookmark(FindQueryCopy(query), bookmark)

\* Find.execute that sets the bookmark on the caller's query itself.
ExecuteInPlace(i, op, bookmark) ==
    /\ call' = [op |-> op, it |-> i,
                req |-> IF bookmark = None THEN query ELSE SetBookmark(query, bookmark)]
    /\ query' = call'.req

\* Find.execute up to session.post: iterator i blocks in the request.
\* The caller's query is left as it is (the bookmark goes into a copy).
Execute(i, op, bookmark) ==
    /\ call' = [op |-> op, it |-> i, req |-> ExecuteBody(bookmark)]
    /\ query' = query

(***************************************************************************)
(* FindIterator                                                            *)
(***************************************************************************)
\* hasMorePages from the presence of a bookmark alone.
HasMorePagesBookmarkOnly(bookmark, count) == bookmark # None

\* hasMorePages that asks for more rows than a page can hold.
HasMorePagesGreater(bookmark, count) ==
    /\ bookmark # None
    /\ count > (IF DictGet(query, "limit") \in {None, 0}
                THEN DefaultLimit ELSE DictGet(query, "limit"))

\* The hasMorePages expression of fetch_more.
HasMorePages(bookmark, count) ==
    /\ bookmark # None
    /\ count = (IF DictGet(query, "limit") \in {None, 0}
                THEN DefaultLimit ELSE DictGet(query, "limit"))

\* fetch_more that replaces the queue by the new page.
FetchMoreResultReplace(it, results) ==
    [it EXCEPT !.bookmark = results.bookmark,
               !.queue = results.docs,
               !.hasMorePages = HasMorePages(results.bookmark, results.count)]

\* fetch_more after execute has returned `results`.
FetchMoreResult(it, results) ==
    [it EXCEPT !.bookmark = results.bookmark,
               !.queue = @ \o results.docs,
               !.hasMorePages = HasMorePages(results.bookmark, results.count)]

\* What the caller of iterator i has seen once a page has been fetched.
PageFetched(h, results) ==
    [h EXCEPT !.page = results.docs,
              !.pageBookmark = results.bookmark,
              !.pages = Min(@ + 1, 2),
              !.fetched = @ \o results.docs,
              !.last = IF @.outcome = "pending"
                       THEN [@ EXCEPT !.fetched = TRUE, !.page = results.docs]
                       ELSE @]

\* __next__ that fetches whenever hasMorePages is set.
ShouldFetchAlways(it) == it.hasMorePages

\* The condition under which __next__ fetches another page.
ShouldFetch(it) == auto_paginate /\ it.hasMorePages

\* FindIterator.__next__ on iterator value it (the iterator at entry, or
\* after the fetch that __next__ made before calling itself again).
NextBody(i, it, h) ==
    IF it.queue # <<>>
    THEN /\ its' = [its EXCEPT ![i] = [it EXCEPT !.queue = Tail(it.queue)]]
         /\ hist' = [hist EXCEPT ![i] =
                [h EXCEPT !.returned = Append(@, Head(it.queue)),
                          !.last = [@ EXCEPT !.outcome = "row", !.row = Head(it.queue)]]]
         /\ call' = Idle
         /\ query' = query
    ELSE IF ShouldFetch(it)
    THEN /\ its' = [its EXCEPT ![i] = it]
         /\ Execute(i, "next", it.bookmark)
         /\ hist' = [hist EXCEPT ![i] =
                [h EXCEPT !.nreq = @ + 1,
                          !.last = [@ EXCEPT !.reqs = Append(@, call'.req)]]]
    ELSE /\ its' = [its EXCEPT ![i] = it]
         /\ hist' = [hist EXCEPT ![i] =
                [h EXCEPT !.ended = TRUE,
                          !.stops = Min(@ + 1, 2),
                          !.last = [@ EXCEPT !.outcome = "stop"]]]
         /\ call' = Idle
         /\ query' = query

\* Find.__iter__: FindIterator.__init__ up to the request of the first page.
IterCall(i) ==
    /\ call.op = "idle"
    /\ ~its[i].alive
    /\ its' = [its EXCEPT ![i] = NoIterator]
    /\ Execute(i, "init", None)
    /\ hist' = [hist EXCEPT ![i] = [NoHistory EXCEPT !.nreq = 1, !.first = <<call'.req>>]]
    /\ UNCHANGED <<auto_paginate, nrows, srvBookmark, failures, viewVars, feedVars, fqVars, encVars, excVars, vrVars, dbVars>>

\* next(iterator)
NextCall(i) ==
    /\ call.op = "idle"
    /\ its[i].alive
    /\ NextBody(i, its[i],
                [hist[i] EXCEPT !.last = [NoNextCall EXCEPT !.pre = its[i],
                                                            !.preBookmark = hist[i].pageBookmark,
                                                            !.outcome = "pending"]])
    /\ UNCHANGED <<auto_paginate, nrows, srvBookmark, failures, viewVars, feedVars, fqVars, encVars, excVars, vrVars, dbVars>>

\* iterator.fetch_more() called by the user of the iterator.
FetchMoreCall(i) ==
    /\ call.op = "idle"
    /\ its[i].alive
    /\ hist[i].direct < MaxDirect
    /\ Execute(i, "fetch_more", its[i].bookmark)
    /\ hist' = [hist EXCEPT ![i] =
           [@ EXCEPT !.nreq = @ + 1,
                     !.direct = @ + 1,
                     !.overlap = @ \/ its[i].queue # <<>>]]
    /\ UNCHANGED <<its, auto_paginate, nrows, srvBookmark, failures, viewVars, feedVars, fqVars, encVars, excVars, vrVars, dbVars>>

\* The request in progress is answered with a page (response.ok).
RespondOk ==
    /\ call.op # "idle"
    /\ LET i       == call.it
           results == FindResponse(ServerPage(call.req), DefaultLimit)
           it      == FetchMoreResult(its[i], results)
           h       == PageFetched(hist[i], results)
       IN  IF call.op = "next"
           THEN NextBody(i, it, h)
           ELSE /\ its' = [its EXCEPT ![i] = [it EXCEPT !.alive = TRUE]]
                /\ hist' = [hist EXCEPT ![i] = h]
                /\ call' = Idle
                /\ query' = query
    /\ UNCHANGED <<auto_paginate, nrows, srvBookmark, failures, viewVars, feedVars, fqVars, encVars, excVars, vrVars, dbVars>>

\* A failed request that ends the iteration instead of raising.
RespondFailAsStop ==
    /\ call.op # "idle"
    /\ failures < MaxFailures
    /\ failures' = failures + 1
    /\ call' = Idle
    /\ hist' = [hist EXCEPT ![call.it] =
           IF call.op = "next"
           THEN [@ EXCEPT !.ended = TRUE, !.stops = Min(@ + 1, 2),
                          !.last = [@ EXCEPT !.failed = TRUE, !.outcome = "stop"]]
           ELSE @]
    /\ UNCHANGED <<its, query, auto_paginate, nrows, srvBookmark, viewVars, feedVars, fqVars, encVars, excVars, vrVars, dbVars>>

\* The request in progress fails (not response.ok): execute raises, and the
\* exception leaves fetch_more and the call that made it.
RespondFail ==
    /\ call.op # "idle"
    /\ failures < MaxFailures
    /\ failures' = failures + 1
    /\ call' = Idle
    /\ hist' = [hist EXCEPT ![call.it].last =
           IF call.op = "next"
           THEN [@ EXCEPT !.failed = TRUE, !.outcome = "error"]
           ELSE @]
    /\ UNCHANGED <<its, query, auto_paginate, nrows, srvBookmark, viewVars, feedVars, fqVars, encVars, excVars, vrVars, dbVars>>

(***************************************************************************)
(* The view server (environment)                                           *)
(***************************************************************************)
\* Row j of the view, in view order: rows are ordered by key, then by id.
ViewRow(j) == [id |-> j, key |-> IF vdup THEN (j + 1) \div 2 ELSE j]

AllViewRows == [j \in 1..vrows |-> ViewRow(j)]

\* Whether row j is at or after the start position a request names.
AtOrAfterStart(j, options) ==
    IF "startkey" \notin DOMAIN options THEN TRUE
    ELSE \/ ViewRow(j).key > options["startkey"]
         \/ /\ ViewRow(j).key = options["startkey"]
            /\ ("startkey_docid" \in DOMAIN options => ViewRow(j).id >= options["startkey_docid"])

\* The rows answering a GET of the view with the given options.
ViewPage(options) ==
    LET before == Cardinality({j \in 1..vrows : ~AtOrAfterStart(j, options)})
        start  == before + (IF "skip" \in DOMAIN options THEN options["skip"] ELSE 0)
        end    == IF "limit" \in DOMAIN options
                  THEN Min(start + options["limit"], vrows) ELSE vrows
    IN  [k \in 1..(end - start) |-> ViewRow(start + k)]

(***************************************************************************)
(* Database.view and Database.iterview                                     *)
(***************************************************************************)
NoGenerator == [pc |-> "none", batch |-> 0, limit |-> None, options |-> EmptyDict,
                loop_limit |-> 0, rows |-> <<>>, idx |-> 0, error |-> "none"]

NoViewLog == [batch |-> 0, limit |-> None, skip |-> 0, requests |-> <<>>, yielded |-> <<>>]

\* list(self.view(name, wrapper, **options)) for plain rows.
View(options) == ViewPage(options)

\* The argument checks of iterview with a limit check that lets 0 through.
IterviewArgsErrorLimitBelowZero(batch, limit) ==
    IF batch <= 0 THEN "ValueError"
    ELSE IF limit # None /\ limit < 0 THEN "ValueError"
    ELSE "none"

\* The argument checks at the head of iterview.
IterviewArgsError(batch, limit) ==
    IF batch <= 0 THEN "ValueError"
    ELSE IF limit # None /\ limit <= 0 THEN "ValueError"
    ELSE "none"

\* loop_limit = min(limit or batch, batch)
LoopLimit(limit, batch) == Min(IF limit \in {None, 0} THEN batch ELSE limit, batch)

\* The start keys of the next loop, without the document id.
NextOptionsKeyOnly(options, rows) ==
    ("startkey" :> rows[Len(rows)].key) @@ ("skip" :> 0) @@ options

\* The start keys of the next loop, with the caller's skip left in place.
NextOptionsKeepSkip(options, rows) ==
    ("startkey" :> rows[Len(rows)].key) @@ ("startkey_docid" :> rows[Len(rows)].id)
        @@ options

\* options.update(startkey=rows[-1]['key'], startkey_docid=rows[-1]['id'], skip=0)
NextOptions(options, rows) ==
    ("startkey" :> rows[Len(rows)].key) @@ ("startkey_docid" :> rows[Len(rows)].id)
        @@ ("skip" :> 0) @@ options

\* The body of iterview's loop from a given point to the next yield or to the
\* end of the generator; r is the generator with the log of what it has done.
RECURSIVE RunLoop(_)

\* The end of a batch that goes on unless the page is shorter than a batch.
AfterBatchStrict(r) ==
    LET g      == r.g
        limit2 == IF g.limit # None THEN g.limit - Min(Len(g.rows), g.batch) ELSE None
    IN  IF Len(g.rows) < g.batch \/ (limit2 # None /\ limit2 = 0)
        THEN [r EXCEPT !.g = [g EXCEPT !.limit = limit2, !.pc = "done"]]
        ELSE RunLoop([r EXCEPT !.g = [g EXCEPT !.limit = limit2,
                                               !.options = NextOptions(g.options, g.rows)]])

\* After the rows of a batch have been yielded: decrement, break or go on.
AfterBatch(r) ==
    LET g      == r.g
        limit2 == IF g.limit # None THEN g.limit - Min(Len(g.rows), g.batch) ELSE None
    IN  IF Len(g.rows) <= g.batch \/ (limit2 # None /\ limit2 = 0)
        THEN [r EXCEPT !.g = [g EXCEPT !.limit = limit2, !.pc = "done"]]
        ELSE RunLoop([r EXCEPT !.g = [g EXCEPT !.limit = limit2,
                                               !.options = NextOptions(g.options, g.rows)]])

\* for row in itertools.islice(rows, loop_limit): yield row
YieldFrom(r) ==
    LET g == r.g
    IN  IF g.idx < Min(g.loop_limit, Len(g.rows))
        THEN [g   |-> [g EXCEPT !.idx = @ + 1, !.pc = "yielded"],
              log |-> [r.log EXCEPT !.yielded = Append(@, g.rows[g.idx + 1])]]
        ELSE AfterBatch(r)

\* One pass of `while True`: request a batch and one more row, then yield.
RunLoop(r) ==
    LET g       == r.g
        ll      == LoopLimit(g.limit, g.batch)
        options == ("limit" :> (ll + 1)) @@ g.options
    IN  YieldFrom([g   |-> [g EXCEPT !.loop_limit = ll, !.options = options,
                                     !.rows = View(options), !.idx = 0],
                   log |-> [r.log EXCEPT !.requests = Append(@, options)]])

\* db.iterview(name, batch, **options): a generator object; none of the
\* function's code has run yet.
IterviewCall(batch, limit, skip) ==
    /\ gen.pc = "none"
    /\ LET options == (IF limit # None THEN ("limit" :> limit) ELSE EmptyDict)
                      @@ (IF skip > 0 THEN ("skip" :> skip) ELSE EmptyDict)
       IN  gen' = [NoGenerator EXCEPT !.pc = "created", !.batch = batch, !.options = options]
    /\ vlog' = [NoViewLog EXCEPT !.batch = batch, !.limit = limit, !.skip = skip]
    /\ UNCHANGED <<vrows, vdup, findVars, feedVars, fqVars, encVars, excVars, vrVars, dbVars>>

\* next(generator), first time: the function runs from its head.
GenStart ==
    /\ gen.pc = "created"
    /\ LET limit == DictGet(gen.options, "limit")
           error == IterviewArgsError(gen.batch, limit)
       IN  IF error # "none"
           THEN /\ gen' = [gen EXCEPT !.pc = "raised", !.error = error]
                /\ vlog' = vlog
           ELSE LET r == RunLoop([g |-> [gen EXCEPT !.limit = limit], log |-> vlog])
                IN  gen' = r.g /\ vlog' = r.log
    /\ UNCHANGED <<vrows, vdup, findVars, feedVars, fqVars, encVars, excVars, vrVars, dbVars>>

\* next(generator), resumed after a yield.
GenResume ==
    /\ gen.pc = "yielded"
    /\ LET r == YieldFrom([g |-> gen, log |-> vlog])
       IN  gen' = r.g /\ vlog' = r.log
    /\ UNCHANGED <<vrows, vdup, findVars, feedVars, fqVars, encVars, excVars, vrVars, dbVars>>

(***************************************************************************)
(* Database._changes: the reader of a continuous change feed               *)
(***************************************************************************)
\* The lines a continuous feed is made of: a heartbeat, two changes, the
\* closing line carrying last_seq, and a line that is not JSON.
Heartbeat == ""

FeedLines == {Heartbeat, "{seq:1}", "{seq:2}", "{last_seq:2}", "{"}

\* json.decode, by the object each line's text stands for.
JsonObjects ==
    ("{seq:1}" :> ("seq" :> 1)) @@ ("{seq:2}" :> ("seq" :> 2))
        @@ ("{last_seq:2}" :> ("last_seq" :> 2))

JsonDecode(ln) ==
    IF ln \in DOMAIN JsonObjects
    THEN [ok |-> TRUE, doc |-> JsonObjects[ln]]
    ELSE [ok |-> FALSE, doc |-> EmptyDict]

\* pc: none, created, yielded, done, raised, closed.  pos: lines read from
\* the body.  decoded: calls of json.decode.
NoFeed == [pc |-> "none", method |-> "none", acquired |-> FALSE, released |-> FALSE,
           pos |-> 0, decoded |-> 0]

\* self.resource.post('_changes', ...) or self.resource.get('_changes', ...):
\* the streaming body is in the reader's hands.
OpenBody(f, filter) ==
    [f EXCEPT !.method = IF filter = "_selector" THEN "post" ELSE "get",
              !.acquired = TRUE]

\* The body read to its last line: the transport takes the connection back.
BodyAtEnd(f) == [f EXCEPT !.pos = Len(stream), !.released = TRUE]

\* if not ln: an empty line is never a heartbeat.
IsHeartbeatNever(ln) == FALSE

\* if not ln
IsHeartbeat(ln) == ln = Heartbeat

\* if 'last_seq' in doc: no document asks for the drain.
DrainNeededNever(doc) == FALSE

\* if 'last_seq' in doc
DrainNeeded(doc) == "last_seq" \in DOMAIN doc

\* for ln in lines: ... yield doc, from the read position to the next yield,
\* the end of the body or an error of json.decode.
RECURSIVE ReadLines(_)
ReadLines(r) ==
    LET f == r.f
    IN  IF f.pos = Len(stream)
        THEN [r EXCEPT !.f = [BodyAtEnd(f) EXCEPT !.pc = "done"]]
        ELSE LET ln == stream[f.pos + 1]
                 f1 == [f EXCEPT !.pos = @ + 1]
             IN  IF IsHeartbeat(ln)
                 THEN ReadLines([r EXCEPT !.f = f1])
                 ELSE LET d  == JsonDecode(ln)
                          f2 == [f1 EXCEPT !.decoded = @ + 1]
                      IN  IF ~d.ok
                          THEN [r EXCEPT !.f = [f2 EXCEPT !.pc = "raised"]]
                          ELSE [f  |-> [(IF DrainNeeded(d.doc) THEN BodyAtEnd(f2) ELSE f2)
                                            EXCEPT !.pc = "yielded"],
                                ev |-> Append(r.ev, d.doc)]

\* db._changes(**opts): a generator object; none of the function's code has
\* run yet.
ChangesCall ==
    /\ feed.pc = "none"
    /\ feed' = [NoFeed EXCEPT !.pc = "created"]
    /\ events' = <<>>
    /\ UNCHANGED <<stream, findVars, viewVars, fqVars, encVars, excVars, vrVars, dbVars>>

\* next(generator), first time: the request is made and lines are read.
ChangesStart(filter) ==
    /\ feed.pc = "created"
    /\ LET r == ReadLines([f |-> OpenBody(feed, filter), ev |-> events])
       IN  feed' = r.f /\ events' = r.ev
    /\ UNCHANGED <<stream, findVars, viewVars, fqVars, encVars, excVars, vrVars, dbVars>>

\* next(generator), resumed after a yield.
ChangesResume ==
    /\ feed.pc = "yielded"
    /\ LET r == ReadLines([f |-> feed, ev |-> events])
       IN  feed' = r.f /\ events' = r.ev
    /\ UNCHANGED <<stream, findVars, viewVars, fqVars, encVars, excVars, vrVars, dbVars>>

\* The consumer stops before the generator has ended: generator.close(), by
\* hand or when the generator object is dropped.  GeneratorExit is raised at
\* the yield; no statement of _changes handles it.
ChangesClose ==
    /\ feed.pc \in {"created", "yielded"}
    /\ feed' = [feed EXCEPT !.pc = "closed"]
    /\ UNCHANGED <<stream, events, findVars, viewVars, fqVars, encVars, excVars, vrVars, dbVars>>

(***************************************************************************)
(* FindQuery objects and their properties                                  *)
(***************************************************************************)
\* A selector that is None.
NullSelector == "None"

\* `value is None`, by the kind of value the field holds.
IsNone(name, value) ==
    CASE name = "sort"     -> value = NoSort
      [] name = "selector" -> value = NullSelector
      [] OTHER             -> value = None

\* The setter of an optional property (limit, bookmark and sort are modelled;
\* every optional setter has the same body):
\* if value is None: del self[name]  else: self[name] = value
SetOptional(q, name, value) ==
    IF IsNone(name, value)
    THEN IF name \in DOMAIN q THEN DictWithout(q, {name}) ELSE KeyError
    ELSE (name :> value) @@ q

\* The selector setter: self['selector'] = value
SetSelector(q, value) == ("selector" :> value) @@ q

\* FindQuery(selector, sort, **options)
QueryNew(selector, sort, options) ==
    /\ fq.pc = "none"
    /\ fq' = [pc |-> "built", d |-> FindQueryInit(selector, sort, options), error |-> "none",
              last |-> [op |-> "init", pre |-> EmptyDict, unset |-> FALSE, sort |-> sort]]
    /\ UNCHANGED <<findVars, viewVars, feedVars, encVars, excVars, vrVars, dbVars>>

\* q.<name> = value, for an optional property.
QuerySet(name, value) ==
    /\ fq.pc = "built"
    /\ LET r    == SetOptional(fq.d, name, value)
           last == [op |-> name, pre |-> fq.d, unset |-> IsNone(name, value),
                    sort |-> IF name = "sort" THEN value ELSE NoSort]
       IN  IF DOMAIN r = {"error"}
           THEN fq' = [fq EXCEPT !.error = r.error, !.last = last]
           ELSE fq' = [fq EXCEPT !.d = r, !.error = "none", !.last = last]
    /\ UNCHANGED <<findVars, viewVars, feedVars, encVars, excVars, vrVars, dbVars>>

\* q.selector = value
QuerySetSelector(value) ==
    /\ fq.pc = "built"
    /\ fq' = [fq EXCEPT !.d = SetSelector(fq.d, value), !.error = "none",
                        !.last = [op |-> "selector", pre |-> fq.d, unset |-> FALSE,
                                  sort |-> NoSort]]
    /\ UNCHANGED <<findVars, viewVars, feedVars, encVars, excVars, vrVars, dbVars>>

(***************************************************************************)
(* _encode_view_options                                                    *)
(***************************************************************************)
\* Python values of view options, by type.  A str or bytes value is its
\* sequence of characters.
Str(cs) == [t |-> "str", v |-> cs]

Bytes(cs) == [t |-> "bytes", v |-> cs]

Num(n) == [t |-> "int", v |-> n]

Bool(b) == [t |-> "bool", v |-> b]

PyNone == [t |-> "none", v |-> <<>>]

List(vs) == [t |-> "list", v |-> vs]

DigitChars == <<"0", "1", "2", "3", "4", "5", "6", "7", "8", "9">>

\* The decimal digits of a natural number.
RECURSIVE Digits(_)
Digits(n) ==
    IF n < 10 THEN <<DigitChars[n + 1]>> ELSE Digits(n \div 10) \o <<DigitChars[(n % 10) + 1]>>

\* The characters of a string inside a JSON string literal.
RECURSIVE Escape(_)
Escape(cs) ==
    IF cs = <<>> THEN <<>>
    ELSE (IF Head(cs) \in {"\"", "\\"} THEN <<"\\", Head(cs)>> ELSE <<Head(cs)>>)
             \o Escape(Tail(cs))

\* Whether json.dumps accepts the value; it raises TypeError for bytes.
JsonEncodable(value) ==
    /\ value.t # "bytes"
    /\ value.t = "list" => \A i \in 1..Len(value.v) : value.v[i].t \notin {"bytes", "list"}

\* The text json.dumps gives for a scalar.
JsonScalar(value) ==
    CASE value.t = "str"  -> <<"\"">> \o Escape(value.v) \o <<"\"">>
      [] value.t = "int"  -> IF value.v < 0 THEN <<"-">> \o Digits(0 - value.v)
                             ELSE Digits(value.v)
      [] value.t = "bool" -> IF value.v THEN <<"t", "r", "u", "e">>
                             ELSE <<"f", "a", "l", "s", "e">>
      [] value.t = "none" -> <<"n", "u", "l", "l">>

\* The items of a list, separated by ", ".
RECURSIVE JsonItems(_)
JsonItems(vs) ==
    IF vs = <<>> THEN <<>>
    ELSE IF Len(vs) = 1 THEN JsonScalar(vs[1])
    ELSE JsonScalar(vs[1]) \o <<",", " ">> \o JsonItems(Tail(vs))

\* json.dumps(value): a str.
JsonDumps(value) ==
    IF value.t = "list"
    THEN Str(<<"[">> \o JsonItems(value.v) \o <<"]">>)
    ELSE Str(JsonScalar(value))

\* isinstance(value, util.strbase), strbase being (str, bytes)
IsStrbase(value) == value.t \in {"str", "bytes"}

KeyNames == {"key", "startkey", "endkey"}

\* A test that looks at the type of the value only.
NeedsEncodingTypeOnly(name, value) == ~IsStrbase(value)

\* if name in ('key', 'startkey', 'endkey') or not isinstance(value, util.strbase)
NeedsEncoding(name, value) == name \in KeyNames \/ ~IsStrbase(value)

\* _encode_view_options(options): the options after the call, and the dict
\* returned or the error raised by json.dumps.
EncodeViewOptions(options) ==
    LET bad == {name \in DOMAIN options :
                    NeedsEncoding(name, options[name]) /\ ~JsonEncodable(options[name])}
    IN  IF bad # {}
        THEN [error |-> "TypeError", options |-> options, retval |-> EmptyDict]
        ELSE [error   |-> "none",
              options |-> options,
              retval  |-> [name \in DOMAIN options |->
                              IF NeedsEncoding(name, options[name])
                              THEN JsonDumps(options[name])
                              ELSE options[name]]]

\* A call of _encode_view_options(eopts).
EncodeCall ==
    /\ eout.pc = "none"
    /\ LET r == EncodeViewOptions(eopts)
       IN  /\ eout' = [pc     |-> IF r.error = "none" THEN "returned" ELSE "raised",
                       input  |-> eopts,
                       retval |-> r.retval]
           /\ eopts' = r.options
    /\ UNCHANGED <<findVars, viewVars, feedVars, fqVars, excVars, vrVars, dbVars>>

(***************************************************************************)
(* CouchDBException.auto                                                   *)
(***************************************************************************)
\* What data.get(name) gives for a field the body does not have: None.
NoField == "<None>"

\* CouchDBException.lookup_table as the module leaves it: a defaultdict whose
\* default is CouchDBException.
LookupTableInit ==
    ("conflict" :> "DocumentConflictException")
        @@ ("unauthorized" :> "UnauthorizedException")
        @@ ("not_found" :> "NotFoundException")

\* The classes auto can build.
CouchDBKinds ==
    {"CouchDBException", "DocumentConflictException", "UnauthorizedException",
     "NotFoundException"}

Statuses == {404, 409, 500}

\* f'Invalid data received from server, status code {response.status_code}'
StatusReason ==
    (404 :> "Invalid data received from server, status code 404")
        @@ (409 :> "Invalid data received from server, status code 409")
        @@ (500 :> "Invalid data received from server, status code 500")

\* A response body: text that is not JSON, or a JSON object with or without
\* the fields error and reason.
InvalidBody == [json |-> FALSE, error |-> NoField, reason |-> NoField]

JsonBody(error, reason) == [json |-> TRUE, error |-> error, reason |-> reason]

\* The two things auto is handed: a response object, or the dict that
\* response.json() has returned.
ResponseObject(status, body) == [t |-> "response", status |-> status, body |-> body]

DecodedDict(status, body) == [t |-> "dict", status |-> status, body |-> body]

\* No classification made yet.
NoException == [op |-> "none", status |-> 0, body |-> InvalidBody, kind |-> "none",
                error |-> NoField, reason |-> NoField]

\* defaultdict.__getitem__: a missing key is given the default and stored.
Lookup(table, key) ==
    IF key \in DOMAIN table
    THEN [value |-> table[key], table |-> table]
    ELSE [value |-> "CouchDBException", table |-> (key :> "CouchDBException") @@ table]

\* A lookup by the body's error field.
LookupKeyError(error, reason) == error

\* cls.lookup_table[reason]
LookupKey(error, reason) == reason

\* CouchDBException.auto(response): the exception built, or the exception
\* that leaves auto, and the lookup table afterwards.
Auto(table, response) ==
    IF response.t = "dict"
    THEN \* data = response.json(): a dict has no attribute json
         [kind |-> "AttributeError", error |-> NoField, reason |-> NoField, table |-> table]
    ELSE LET body   == response.body
             error  == IF body.json THEN body.error ELSE "json"
             reason == IF body.json THEN body.reason ELSE StatusReason[response.status]
             found  == Lookup(table, LookupKey(error, reason))
         IN  [kind |-> found.value, error |-> error, reason |-> reason, table |-> found.table]

\* if not response.ok: raise CouchDBException.auto(response.json())
\* The argument is evaluated first; response.json() raises JSONDecodeError
\* for a body that is not JSON.
RaiseAuto(table, status, body) ==
    IF ~body.json
    THEN [kind |-> "JSONDecodeError", error |-> NoField, reason |-> NoField, table |-> table]
    ELSE Auto(table, DecodedDict(status, body))

\* CouchDBException.auto called with a failed response.
AutoCall(status, body) ==
    /\ LET r == Auto(lookup_table, ResponseObject(status, body))
       IN  /\ exc' = [op |-> "auto", status |-> status, body |-> body, kind |-> r.kind,
                      error |-> r.error, reason |-> r.reason]
           /\ lookup_table' = r.table
    /\ UNCHANGED <<findVars, viewVars, feedVars, fqVars, encVars, vrVars, dbVars>>

\* An operation of the client package (a Server method, Find.execute) whose
\* request is answered with a status that is not ok.
OperationFails(status, body) ==
    /\ LET r == RaiseAuto(lookup_table, status, body)
       IN  /\ exc' = [op |-> "operation", status |-> status, body |-> body, kind |-> r.kind,
                      error |-> r.error, reason |-> r.reason]
           /\ lookup_table' = r.table
    /\ UNCHANGED <<findVars, viewVars, feedVars, fqVars, encVars, vrVars, dbVars>>

ClassifierAtRest ==
    /\ lookup_table = LookupTableInit
    /\ exc = NoException

(***************************************************************************)
(* _call_viewlike and ViewResults (client/view.py)                         *)
(***************************************************************************)
\* ViewResults.__init__(view, options).  accesses counts the accesses made
\* to the object so far, up to two.
NewViewResults(options) ==
    [options |-> options, _rows |-> PyNone, _total_rows |-> PyNone, _offset |-> PyNone,
     _update_seq |-> PyNone, accesses |-> 0]

\* No operation on a ViewResults object yet.
NoRequest == [method |-> "none", json |-> EmptyDict, params |-> EmptyDict]

\* The number of requests made for all objects.
RECURSIVE SumSeq(_)
SumSeq(q) == IF q = <<>> THEN 0 ELSE Head(q) + SumSeq(Tail(q))

\* No operation on a ViewResults object yet.  nreq: the requests made before
\* the operation; request: the request the operation made.
NoViewOp == [op |-> "none", obj |-> 0, src |-> 0, start |-> PyNone, stop |-> PyNone,
             pre |-> NewViewResults(EmptyDict), what |-> "none", fetched |-> FALSE,
             nreq |-> 0, request |-> NoRequest, outcome |-> "none"]

\* _call_viewlike that pops `keys` from the caller's dict.
CallViewlikeInPlace(options) ==
    IF "keys" \in DOMAIN options
    THEN LET enc == EncodeViewOptions(DictWithout(options, {"keys"}))
         IN  [options |-> DictWithout(options, {"keys"}),
              error   |-> enc.error,
              request |-> [method |-> "POST", json |-> ("keys" :> options["keys"]),
                           params |-> enc.retval]]
    ELSE LET enc == EncodeViewOptions(options)
         IN  [options |-> enc.options,
              error   |-> enc.error,
              request |-> [method |-> "GET", json |-> EmptyDict, params |-> enc.retval]]

\* _call_viewlike(url, session, options) up to the request: the caller's
\* dict afterwards, and the request sent (or the error of the encoder).
CallViewlike(options) ==
    IF "keys" \in DOMAIN options
    THEN LET copy == options
             keys == ("keys" :> copy["keys"])
             enc  == EncodeViewOptions(DictWithout(copy, {"keys"}))
         IN  [options |-> options,
              error   |-> enc.error,
              request |-> [method |-> "POST", json |-> keys, params |-> enc.retval]]
    ELSE LET enc == EncodeViewOptions(options)
         IN  [options |-> enc.options,
              error   |-> enc.error,
              request |-> [method |-> "GET", json |-> EmptyDict, params |-> enc.retval]]

\* return response.json(), and what _fetch makes of it: the status is not
\* looked at; a body that is not JSON raises JSONDecodeError, an error body
\* has no 'rows'.
FetchResult(o, server) ==
    IF ~server.json
    THEN [o |-> o, outcome |-> "JSONDecodeError"]
    ELSE IF server.status # 200
    THEN [o |-> o, outcome |-> "KeyError"]
    ELSE [o |-> [o EXCEPT !._rows = List([j \in 1..server.nrows |-> j]),
                          !._total_rows = Num(server.nrows),
                          !._offset = Num(0),
                          !._update_seq = PyNone],
          outcome |-> "ok"]

\* if not self._rows: an empty page counts as not fetched.
NeedsFetchFalsy(o) == o._rows.t = "none" \/ o._rows.v = <<>>

\* if self._rows is None
NeedsFetch(o) == o._rows.t = "none"

\* ViewResults.__getitem__(slice(start, stop)): the object sliced, as it is
\* afterwards, and the object returned.
GetItemSlice(o, start, stop) ==
    LET options == o.options
        o1 == IF start.t # "none" THEN ("startkey" :> start) @@ options ELSE options
        o2 == IF stop.t # "none" THEN ("endkey" :> stop) @@ o1 ELSE o1
    IN  [self |-> o, result |-> NewViewResults(o2)]

\* view(**options): View.__call__
ViewCall(options) ==
    /\ vres = <<>>
    /\ vres' = <<NewViewResults(options)>>
    /\ vreqs' = <<0>>
    /\ vrlast' = [NoViewOp EXCEPT !.op = "call", !.obj = 1, !.nreq = SumSeq(vreqs)]
    /\ UNCHANGED <<vstatus, findVars, viewVars, feedVars, fqVars, encVars,
                   excVars, dbVars>>

\* results[start:stop] on the newest object.
Slice(start, stop) ==
    /\ vres # <<>>
    /\ Len(vres) < MaxObjects
    /\ LET src == Len(vres)
           r   == GetItemSlice(vres[src], start, stop)
       IN  /\ vres' = Append([vres EXCEPT ![src] = r.self], r.result)
           /\ vrlast' = [NoViewOp EXCEPT !.op = "slice", !.obj = src + 1, !.src = src,
                                         !.start = start, !.stop = stop,
                                         !.pre = vres[src], !.nreq = SumSeq(vreqs)]
    /\ vreqs' = Append(vreqs, 0)
    /\ UNCHANGED <<vstatus, findVars, viewVars, feedVars, fqVars, encVars,
                   excVars, dbVars>>

\* An access to object i through one of its properties; len() and iter()
\* read the property rows.  Each property fetches when _rows is None.  An
\* access that ended with an exception is the last one made.
Access(i, what) ==
    /\ i \in 1..Len(vres)
    /\ vrlast.outcome \in {"none", "ok"}
    /\ LET o    == [vres[i] EXCEPT !.accesses = Min(@ + 1, 2)]
           last == [NoViewOp EXCEPT !.op = "access", !.obj = i, !.pre = vres[i],
                                    !.what = what, !.nreq = SumSeq(vreqs)]
       IN  IF ~NeedsFetch(o)
           THEN /\ vres' = [vres EXCEPT ![i] = o]
                /\ vreqs' = vreqs
                /\ vrlast' = [last EXCEPT !.outcome = "ok"]
           ELSE LET c == CallViewlike(o.options)
                    f == FetchResult([o EXCEPT !.options = c.options], vstatus)
                IN  IF c.error # "none"
                    THEN /\ vres' = [vres EXCEPT ![i] = [o EXCEPT !.options = c.options]]
                         /\ vreqs' = vreqs
                         /\ vrlast' = [last EXCEPT !.outcome = c.error]
                    ELSE /\ vres' = [vres EXCEPT ![i] = f.o]
                         /\ vreqs' = [vreqs EXCEPT ![i] = @ + 1]
                         /\ vrlast' = [last EXCEPT !.fetched = TRUE, !.request = c.request,
                                                   !.outcome = f.outcome]
    /\ UNCHANGED <<vstatus, findVars, viewVars, feedVars, fqVars, encVars, excVars, dbVars>>

ViewResultsAtRest ==
    /\ vres = <<>>
    /\ vreqs = <<>>
    /\ vstatus = [status |-> 200, json |-> TRUE, nrows |-> 0]
    /\ vrlast = NoViewOp

(***************************************************************************)
(* Database.get and Database.__delitem__                                   *)
(***************************************************************************)
\* The revisions a document goes through are numbered from 1.
MaxRev == 3

\* The document on the server: whether it exists, and its current revision.
ServerDoc(exists, rev) == [exists |-> exists, rev |-> rev]

\* No `del db[id]` under way.
NoDelete == [pc |-> "idle", found |-> FALSE, rev |-> None, throw |-> FALSE,
             status |-> None, outcome |-> "none"]

\* No `db.get(id, default)` made yet.
NoGet == [default |-> NoField, throw |-> FALSE, status |-> None,
          outcome |-> "none"]

\* The answer of the server to DELETE doc?rev=r: 200 when r is the current
\* revision of an existing document, 409 when the document has another
\* revision, 404 when there is no document.
DeleteStatus(d, rev) ==
    IF ~d.exists THEN 404 ELSE IF d.rev = rev THEN 200 ELSE 409

\* The answer of the server to GET doc.
GetStatus(d) == IF d.exists THEN 200 ELSE 404

\* `if not response.status_code == 404 and default is not None`: `not`
\* binds tighter than `and`, so the test is (status # 404) and a default.
ReturnsDefault(status, default) == status # 404 /\ default # NoField

\* Database.get: one GET, then the default, an HTTPError from
\* raise_for_status, or a Document made of the body (for a 404 without
\* throw_exceptions, of the error body).
GetOutcome(status, default, throw) ==
    IF ReturnsDefault(status, default) THEN "default"
    ELSE IF throw /\ status >= 400 THEN "HTTPError"
    ELSE IF status = 200 THEN "document"
    ELSE "errordocument"

\* Another client saves the document: the server gives it a new revision.
OtherUpdate ==
    /\ sdoc.exists
    /\ sdoc.rev < MaxRev
    /\ sdoc' = [sdoc EXCEPT !.rev = @ + 1]
    /\ UNCHANGED <<delop, getr>>
    /\ UNCHANGED <<findVars, viewVars, feedVars, fqVars, encVars, excVars, vrVars>>

\* Database.__delitem__, first request: HEAD, and the revision read from
\* the ETag header.  A missing document has no ETag: headers['ETag'] raises
\* KeyError and the operation is over.
DelHead(throw) ==
    /\ delop.pc = "idle"
    /\ delop' = IF sdoc.exists
                THEN [NoDelete EXCEPT !.pc = "headed", !.found = TRUE,
                                      !.rev = sdoc.rev, !.throw = throw]
                ELSE [NoDelete EXCEPT !.pc = "done", !.throw = throw,
                                      !.outcome = "KeyError"]
    /\ UNCHANGED <<sdoc, getr>>
    /\ UNCHANGED <<findVars, viewVars, feedVars, fqVars, encVars, excVars, vrVars>>

\* Database.__delitem__, second request: DELETE with the revision read by
\* the first, then raise_for_status when throw_exceptions is set.
DelDelete ==
    /\ delop.pc = "headed"
    /\ LET status == DeleteStatus(sdoc, delop.rev)
       IN /\ sdoc' = IF status = 200 THEN [sdoc EXCEPT !.exists = FALSE]
                     ELSE sdoc
          /\ delop' = [delop EXCEPT
                 !.pc = "done",
                 !.status = status,
                 !.outcome = IF status = 200 THEN "deleted"
                             ELSE IF delop.throw THEN "HTTPError"
                             ELSE "returned"]
    /\ UNCHANGED getr
    /\ UNCHANGED <<findVars, viewVars, feedVars, fqVars, encVars, excVars, vrVars>>

\* Database.get(id, default) on a Database with the given throw_exceptions.
GetCall(default, throw) ==
    /\ getr.outcome = "none"
    /\ LET status == GetStatus(sdoc)
       IN getr' = [default |-> default, throw |-> throw, status |-> status,
                   outcome |-> GetOutcome(status, default, throw)]
    /\ UNCHANGED <<sdoc, delop>>
    /\ UNCHANGED <<findVars, viewVars, feedVars, fqVars, encVars, excVars, vrVars>>

DbAtRest ==
    /\ sdoc = ServerDoc(FALSE, 1)
    /\ delop = NoDelete
    /\ getr = NoGet

\* The queries a caller builds with the FindQuery constructor.
SortInputs == {NoSort, SortPair("name"), SortList(<<SortPair("name"), SortPair("age")>>)}

LimitOptions == {EmptyDict} \cup {("limit" :> l) : l \in 1..MaxLimit}

Init ==
    /\ query \in {FindQueryInit("sel", s, o) : s \in SortInputs, o \in LimitOptions}
    /\ auto_paginate \in BOOLEAN
    /\ nrows \in RowCounts
    /\ srvBookmark \in BOOLEAN
    /\ its = [i \in Iterators |-> NoIterator]
    /\ call = Idle
    /\ failures = 0
    /\ hist = [i \in Iterators |-> NoHistory]
    /\ vrows = 0
    /\ vdup = FALSE
    /\ gen = NoGenerator
    /\ vlog = NoViewLog
    /\ stream = <<>>
    /\ feed = NoFeed
    /\ events = <<>>
    /\ fq = NoQueryObject
    /\ eopts = EmptyDict
    /\ eout = NoEncodeResult
    /\ ClassifierAtRest
    /\ ViewResultsAtRest
    /\ DbAtRest

\* One iterator, used through next() only.
Next ==
    \/ IterCall("it1")
    \/ NextCall("it1")
    \/ RespondOk
    \/ RespondFail

Spec == Init /\ [][Next]_vars

\* One iterator, with fetch_more() also called directly.
NextPublic ==
    \/ IterCall("it1")
    \/ NextCall("it1")
    \/ FetchMoreCall("it1")
    \/ RespondOk
    \/ RespondFail

SpecPublic == Init /\ [][NextPublic]_vars

\* Two iterators of the same Find, used in any order.
NextShared ==
    \/ \E i \in Iterators : IterCall(i)
    \/ \E i \in Iterators : NextCall(i)
    \/ RespondOk
    \/ RespondFail

SpecShared == Init /\ [][NextShared]_vars

\* iterview on an unchanging view.
InitView ==
    /\ vrows \in 0..MaxViewRows
    /\ vdup \in BOOLEAN
    /\ gen = NoGenerator
    /\ vlog = NoViewLog
    /\ query = FindQueryInit("sel", NoSort, EmptyDict)
    /\ auto_paginate = FALSE
    /\ nrows = 0
    /\ srvBookmark = FALSE
    /\ its = [i \in Iterators |-> NoIterator]
    /\ call = Idle
    /\ failures = 0
    /\ hist = [i \in Iterators |-> NoHistory]
    /\ stream = <<>>
    /\ feed = NoFeed
    /\ events = <<>>
    /\ fq = NoQueryObject
    /\ eopts = EmptyDict
    /\ eout = NoEncodeResult
    /\ ClassifierAtRest
    /\ ViewResultsAtRest
    /\ DbAtRest

BatchInputs == (-1)..MaxBatch

ViewLimitInputs == {None} \cup ((-1)..MaxViewLimit)

NextView ==
    \/ \E batch \in BatchInputs, limit \in ViewLimitInputs, skip \in 0..MaxSkip :
          IterviewCall(batch, limit, skip)
    \/ GenStart
    \/ GenResume

SpecView == InitView /\ [][NextView]_vars


\* iterview consumed to its end: the consumer keeps calling next().
SpecViewFair == SpecView /\ WF_vars(GenStart) /\ WF_vars(GenResume)

\* The find and view components at rest.
FindAtRest ==
    /\ query = FindQueryInit("sel", NoSort, EmptyDict)
    /\ auto_paginate = FALSE
    /\ nrows = 0
    /\ srvBookmark = FALSE
    /\ its = [i \in Iterators |-> NoIterator]
    /\ call = Idle
    /\ failures = 0
    /\ hist = [i \in Iterators |-> NoHistory]

ViewAtRest ==
    /\ vrows = 0
    /\ vdup = FALSE
    /\ gen = NoGenerator
    /\ vlog = NoViewLog

\* Sequences over S of length up to n.
SeqsUpTo(S, n) == UNION {[1..k -> S] : k \in 0..n}

\* A continuous change feed whose body is a fixed sequence of lines.
InitFeed ==
    /\ stream \in SeqsUpTo(FeedLines, MaxLines)
    /\ feed = NoFeed
    /\ events = <<>>
    /\ FindAtRest
    /\ ViewAtRest
    /\ fq = NoQueryObject
    /\ eopts = EmptyDict
    /\ eout = NoEncodeResult
    /\ ClassifierAtRest
    /\ ViewResultsAtRest
    /\ DbAtRest

NextFeed ==
    \/ ChangesCall
    \/ \E filter \in {"none", "_selector"} : ChangesStart(filter)
    \/ ChangesResume
    \/ ChangesClose

SpecFeed == InitFeed /\ [][NextFeed]_vars

\* The values a caller may hand over for sort, limit and bookmark.
SortValues == SortInputs \cup {SortList(<<>>)}

IntValues == {None} \cup (1..MaxLimit)

KeywordOptions == UNION {[S -> IntValues] : S \in SUBSET {"limit", "bookmark"}}

\* A FindQuery object built and then changed through its properties.
InitQuery ==
    /\ fq = NoQueryObject
    /\ FindAtRest
    /\ ViewAtRest
    /\ stream = <<>>
    /\ feed = NoFeed
    /\ events = <<>>
    /\ eopts = EmptyDict
    /\ eout = NoEncodeResult
    /\ ClassifierAtRest
    /\ ViewResultsAtRest
    /\ DbAtRest

NextQuery ==
    \/ \E selector \in {"sel", NullSelector}, sort \in SortValues, options \in KeywordOptions :
          QueryNew(selector, sort, options)
    \/ \E name \in {"limit", "bookmark"}, value \in IntValues : QuerySet(name, value)
    \/ \E value \in SortValues : QuerySet("sort", value)
    \/ \E value \in {"sel", NullSelector} : QuerySetSelector(value)

SpecQuery == InitQuery /\ [][NextQuery]_vars

\* The option values a caller may pass.
Chars == {"5", "\""}

OptionValues ==
    {Str(cs) : cs \in SeqsUpTo(Chars, MaxStrLen)}
        \cup {Num(n) : n \in (-1)..MaxNum}
        \cup {Bool(TRUE), Bool(FALSE), PyNone, Bytes(<<"5">>),
              List(<<>>), List(<<Num(1), Str(<<"5">>)>>)}

OptionNames == KeyNames \cup {"stale"}

\* The encoder applied to a dict of up to MaxOptions options.
InitEncode ==
    /\ eopts \in UNION {[S -> OptionValues] :
                           S \in {T \in SUBSET OptionNames : Cardinality(T) <= MaxOptions}}
    /\ eout = NoEncodeResult
    /\ ClassifierAtRest
    /\ ViewResultsAtRest
    /\ DbAtRest
    /\ FindAtRest
    /\ ViewAtRest
    /\ stream = <<>>
    /\ feed = NoFeed
    /\ events = <<>>
    /\ fq = NoQueryObject

NextEncode == EncodeCall

SpecEncode == InitEncode /\ [][NextEncode]_vars

\* The bodies a failed response may carry.
ErrorFields == {NoField, "conflict", "not_found", "bad_request"}

ReasonFields ==
    {NoField, "conflict", "unauthorized", "not_found", "missing",
     "Document update conflict."}

ErrorBodies ==
    {InvalidBody} \cup {JsonBody(e, r) : e \in ErrorFields, r \in ReasonFields}

\* Failed responses classified one after the other.
InitClassifier ==
    /\ ClassifierAtRest
    /\ FindAtRest
    /\ ViewAtRest
    /\ stream = <<>>
    /\ feed = NoFeed
    /\ events = <<>>
    /\ fq = NoQueryObject
    /\ eopts = EmptyDict
    /\ eout = NoEncodeResult
    /\ ViewResultsAtRest
    /\ DbAtRest

NextClassifier ==
    \/ \E status \in Statuses, body \in ErrorBodies : AutoCall(status, body)
    \/ \E status \in Statuses, body \in ErrorBodies : OperationFails(status, body)

SpecClassifier == InitClassifier /\ [][NextClassifier]_vars

\* The options a view is called with, and the bounds of slices.
ViewCallOptions ==
    {EmptyDict,
     ("keys" :> List(<<Num(1), Num(2)>>)) @@ ("stale" :> Str(<<"o", "k">>))
         @@ ("limit" :> Num(2)),
     ("startkey" :> Num(1)) @@ ("stale" :> Str(<<"o", "k">>))}

SliceBounds == {<<Num(1), PyNone>>, <<PyNone, Num(2)>>, <<Num(1), Num(2)>>}

\* How the server answers the view's requests: a page of rows, an error
\* with a JSON body, an error with a body that is not JSON.
ViewServers ==
    {[status |-> 200, json |-> TRUE, nrows |-> n] : n \in {0, 1}}
        \cup {[status |-> 404, json |-> TRUE, nrows |-> 0],
              [status |-> 500, json |-> FALSE, nrows |-> 0]}

Accessors == {"rows", "total_rows", "offset", "update_seq"}

\* ViewResults objects made by calling a view and slicing, and accessed.
InitViewResults ==
    /\ vres = <<>>
    /\ vreqs = <<>>
    /\ vstatus \in ViewServers
    /\ vrlast = NoViewOp
    /\ FindAtRest
    /\ ViewAtRest
    /\ stream = <<>>
    /\ feed = NoFeed
    /\ events = <<>>
    /\ fq = NoQueryObject
    /\ eopts = EmptyDict
    /\ eout = NoEncodeResult
    /\ ClassifierAtRest
    /\ DbAtRest

NextViewResults ==
    \/ \E options \in ViewCallOptions : ViewCall(options)
    \/ \E b \in SliceBounds : Slice(b[1], b[2])
    \/ \E i \in 1..MaxObjects, what \in Accessors : Access(i, what)

SpecViewResults == InitViewResults /\ [][NextViewResults]_vars

\* The defaults a caller passes to Database.get: none, or a value.
GetDefaults == {NoField, "fallback"}

\* A document that exists or not, one `del db[id]` and one `db.get(id, d)`
\* of this client, and the saves of another client, in every order.
InitDb ==
    /\ FindAtRest /\ ViewAtRest /\ stream = <<>> /\ feed = NoFeed
    /\ events = <<>> /\ fq = NoQueryObject /\ eopts = EmptyDict
    /\ eout = NoEncodeResult /\ ClassifierAtRest /\ ViewResultsAtRest
    /\ sdoc \in {ServerDoc(e, 1) : e \in BOOLEAN}
    /\ delop = NoDelete
    /\ getr = NoGet

NextDb ==
    \/ OtherUpdate
    \/ \E throw \in BOOLEAN : DelHead(throw)
    \/ DelDelete
    \/ \E default \in GetDefaults, throw \in BOOLEAN : GetCall(default, throw)

SpecDb == InitDb /\ [][NextDb]_vars

(***************************************************************************)
(* Properties of FindIterator                                              *)
(***************************************************************************)
\* The page size a query asks for: its limit when set, 25 otherwise.
EffectivePageSize == IF "limit" \in DOMAIN query THEN query["limit"] ELSE 25

IsPrefix(s, t) == Len(s) <= Len(t) /\ s = SubSeq(t, 1, Len(s))

\* C1: after every page fetch, hasMorePages is true exactly when the fetched
\* page carried a bookmark and has as many rows as the effective page size.
C1_HasMorePagesIffFullPage ==
    \A i \in Iterators :
        hist[i].pages > 0 =>
            (its[i].hasMorePages <=>
                (hist[i].pageBookmark # None /\ Len(hist[i].page) = EffectivePageSize))

\* A page shorter than the limit that came with a bookmark.
C1_Witness ==
    \E i \in Iterators :
        /\ hist[i].pages > 0
        /\ hist[i].pageBookmark # None
        /\ Len(hist[i].page) < EffectivePageSize
        /\ ~its[i].hasMorePages

\* C2: against a server that returns a bookmark with every page, an
\* auto-paginating iterator returns the server's rows in server order, each
\* once, and signals the end only after all of them.
C2_AllRowsOnceInOrder ==
    (srvBookmark /\ auto_paginate) =>
        \A i \in Iterators :
            /\ Len(hist[i].returned) <= nrows
            /\ \A k \in 1..Len(hist[i].returned) : hist[i].returned[k] = k
            /\ hist[i].ended => Len(hist[i].returned) = nrows

\* All rows of a server with more than one default page were returned.
C2_Witness ==
    /\ srvBookmark /\ auto_paginate
    /\ nrows > DefaultLimit
    /\ \E i \in Iterators : hist[i].ended /\ Len(hist[i].returned) = nrows

\* C3: a next() call entered with an empty queue, auto_paginate and
\* hasMorePages posts exactly one request, the original query with the
\* bookmark of the last page, and returns the first row of the new page or
\* signals the end when the new page is empty.
C3_NextFetchesOnePage ==
    \A i \in Iterators :
        LET c == hist[i].last
        IN  (c.outcome # "none" /\ c.pre.queue = <<>> /\ auto_paginate /\ c.pre.hasMorePages) =>
                /\ Len(c.reqs) = 1
                /\ DOMAIN c.reqs[1] = (DOMAIN query) \cup {"bookmark"}
                /\ c.reqs[1]["bookmark"] = c.preBookmark
                /\ \A k \in (DOMAIN query) \ {"bookmark"} : c.reqs[1][k] = query[k]
                /\ (c.outcome = "row") => (c.fetched /\ c.page # <<>> /\ c.row = Head(c.page))
                /\ (c.outcome = "stop") => (c.fetched /\ c.page = <<>>)
                /\ (c.outcome = "error") => c.failed

\* A next() call that fetched a page for a query with a limit and a sort, and
\* returned the first row of the page.
C3_Witness ==
    \E i \in Iterators :
        /\ hist[i].last.outcome = "row"
        /\ hist[i].last.fetched
        /\ {"sort", "limit"} \subseteq DOMAIN query

\* C4: without auto_paginate an iterator issues one request, the one of its
\* construction, returns that page's rows in order and then signals the end.
C4_SinglePageWithoutAutoPaginate ==
    ~auto_paginate =>
        \A i \in Iterators :
            its[i].alive =>
                /\ hist[i].nreq = 1
                /\ hist[i].pages = 1
                /\ IsPrefix(hist[i].returned, hist[i].page)
                /\ hist[i].ended => hist[i].returned = hist[i].page

\* The end was signalled after a full page, with hasMorePages still true.
C4_Witness ==
    /\ ~auto_paginate
    /\ \E i \in Iterators :
          /\ hist[i].ended
          /\ its[i].hasMorePages
          /\ hist[i].returned # <<>>

\* The queue of iterator i is what is left of the most recently fetched page.
QueueOfLastPage(i) ==
    /\ Len(its[i].queue) <= Len(hist[i].page)
    /\ its[i].queue = SubSeq(hist[i].page,
                             Len(hist[i].page) - Len(its[i].queue) + 1, Len(hist[i].page))
    /\ Len(hist[i].fetched) - Len(hist[i].returned) = Len(its[i].queue)

\* C5, as claimed: whatever public operations are used, the queue holds the
\* not yet returned rows of the most recently fetched page only.
C5_QueueOfSinglePage ==
    \A i \in Iterators : its[i].alive => QueueOfLastPage(i)

\* C5, amended: the queue holds the not yet returned rows of the pages
\* fetched so far, in fetch order; they are rows of the most recent page
\* alone unless fetch_more() was called while the queue was not empty.
C5_QueueOfFetchedPages ==
    \A i \in Iterators :
        its[i].alive =>
            /\ its[i].queue = SubSeq(hist[i].fetched,
                                     Len(hist[i].returned) + 1, Len(hist[i].fetched))
            /\ ~hist[i].overlap => QueueOfLastPage(i)

\* fetch_more() was called on a non-empty queue and rows of both pages wait.
C5_Witness ==
    \E i \in Iterators :
        /\ its[i].alive
        /\ hist[i].overlap
        /\ Len(its[i].queue) > Len(hist[i].page)
        /\ hist[i].page # <<>>

C6_Step ==
    \A i \in Iterators :
        hist[i].ended =>
            /\ hist'[i].ended
            /\ hist'[i].last.outcome = "stop"
            /\ hist'[i].nreq = hist[i].nreq
            /\ hist'[i].returned = hist[i].returned
            /\ its'[i] = its[i]

\* C6: once next() has signalled the end, every later next() signals the end
\* too, returns no row and issues no request.
C6_ExhaustedIsTerminal == [][C6_Step]_vars

\* next() has signalled the end a second time.
C6_Witness == \E i \in Iterators : hist[i].stops = 2 /\ hist[i].last.outcome = "stop"

\* C7: a next() call whose request failed raises that failure itself, after
\* one request, and leaves queue, bookmark and hasMorePages as they were.
C7_FailureRaisedStateKept ==
    \A i \in Iterators :
        hist[i].last.failed =>
            /\ hist[i].last.outcome = "error"
            /\ Len(hist[i].last.reqs) = 1
            /\ its[i] = hist[i].last.pre

\* A next() call failed on an iterator that had already returned rows.
C7_Witness ==
    \E i \in Iterators :
        /\ hist[i].last.failed
        /\ hist[i].returned # <<>>
        /\ its[i].bookmark # None

C8_FirstRequest ==
    \A i \in Iterators :
        hist[i].first # <<>> =>
            /\ hist[i].first[1] = query
            /\ "bookmark" \notin DOMAIN hist[i].first[1]

C8_Step ==
    /\ query' = query
    /\ \A i, j \in Iterators :
          (i # j /\ hist'[i] # hist[i]) => its'[j] = its[j]

\* C8: every iterator of a Find starts with the caller's query and no
\* bookmark, the caller's query is never modified, and a step of one
\* iterator leaves the other iterator's queue and bookmark alone.
C8_IteratorsIndependent == [](C8_FirstRequest) /\ [][C8_Step]_vars

\* The second iterator is being constructed after the first one has fetched
\* its second page, while the first still holds rows.
C8_Witness ==
    /\ call.op = "init" /\ call.it = "it2"
    /\ hist["it1"].pages = 2
    /\ its["it1"].bookmark # None
    /\ its["it1"].queue # <<>>

(***************************************************************************)
(* Properties of iterview                                                  *)
(***************************************************************************)
ValidViewArgs == vlog.batch >= 1 /\ (vlog.limit = None \/ vlog.limit >= 1)

\* The rows of the view the caller's options select.
SelectedRows == SubSeq(AllViewRows, vlog.skip + 1, vrows)

\* The first min(N, limit) of them.
ExpectedRows ==
    IF vlog.limit = None THEN SelectedRows
    ELSE SubSeq(SelectedRows, 1, Min(Len(SelectedRows), vlog.limit))

C10_RejectedAtConstruction ==
    (gen.pc # "none" /\ ~ValidViewArgs) => (gen.pc = "raised" /\ gen.error = "ValueError")

\* C10, amended: the generator is created without an error; its first
\* next() raises ValueError, before any request and without yielding or
\* finishing as an empty sequence.
C10_RejectedAtFirstNext ==
    (gen.pc # "none" /\ ~ValidViewArgs) =>
        /\ gen.pc \in {"created", "raised"}
        /\ gen.pc = "raised" => gen.error = "ValueError"
        /\ vlog.requests = <<>>
        /\ vlog.yielded = <<>>

\* The first next() of a generator made with limit 0 has raised.
C10_Witness ==
    /\ gen.pc = "raised"
    /\ gen.error = "ValueError"
    /\ vlog.batch >= 1
    /\ vlog.limit = 0

\* max(1, ceil(min(N, limit) / batch))
ExpectedRequests ==
    IF ExpectedRows = <<>> THEN 1
    ELSE (Len(ExpectedRows) + vlog.batch - 1) \div vlog.batch

C11_RequestCount ==
    (gen.pc \notin {"none", "created"} /\ ValidViewArgs) =>
        /\ Len(vlog.requests) <= ExpectedRequests
        /\ gen.pc = "done" => Len(vlog.requests) = ExpectedRequests

C12_Step ==
    LET n == Len(vlog.requests)
    IN  (Len(vlog'.requests) # n) =>
            /\ Len(vlog'.requests) = n + 1
            /\ LET o == vlog'.requests[n + 1]
               IN  IF n = 0
                   THEN /\ "startkey" \notin DOMAIN o
                        /\ "startkey_docid" \notin DOMAIN o
                        /\ DictGet(o, "skip") = (IF vlog.skip > 0 THEN vlog.skip ELSE None)
                   ELSE /\ Len(vlog.yielded) < Len(SelectedRows)
                        /\ o["startkey"] = SelectedRows[Len(vlog.yielded) + 1].key
                        /\ o["startkey_docid"] = SelectedRows[Len(vlog.yielded) + 1].id
                        /\ DictGet(o, "skip") = 0

\* C12: every further request of iterview starts at the key and id of the
\* first row not yet yielded, the lookahead row of the page before, with
\* skip 0; the caller's skip is sent with the first request only.
C12_NextRequestStartsAtLookahead == [][C12_Step]_vars

\* A second request was made for a call with a skip, over rows sharing keys.
C12_Witness ==
    /\ Len(vlog.requests) >= 2
    /\ vlog.skip > 0
    /\ vdup
    /\ vlog.requests[2]["skip"] = 0
    /\ vlog.requests[1]["skip"] = vlog.skip

\* C13: once a batch has been yielded and the limit counter decremented, the
\* remaining limit is the caller's limit less the rows yielded, and is not
\* negative.
C13_RemainingLimit ==
    (gen.pc = "done" /\ ValidViewArgs /\ vlog.limit # None) =>
        /\ gen.limit = vlog.limit - Len(vlog.yielded)
        /\ gen.limit >= 0

(***************************************************************************)
(* Properties of the change feed reader                                    *)
(***************************************************************************)
\* The position of the first line carrying last_seq, or the last position.
FeedCut ==
    LET last == {i \in 1..Len(stream) :
                    stream[i] \in DOMAIN JsonObjects
                    /\ "last_seq" \in DOMAIN JsonObjects[stream[i]]}
    IN  IF last = {} THEN Len(stream) ELSE CHOOSE i \in last : \A j \in last : i <= j

\* Every line of the feed up to the cut is empty or a JSON object.
FeedDecodable == \A i \in 1..FeedCut : stream[i] = "" \/ stream[i] \in DOMAIN JsonObjects

\* The objects of the non-empty lines up to the cut, in order.
ExpectedEvents ==
    LET kept == SelectSeq(SubSeq(stream, 1, FeedCut), LAMBDA ln : ln # "")
    IN  [i \in 1..Len(kept) |-> JsonObjects[kept[i]]]

\* C14: the reader of a continuous feed yields the decoding of each
\* non-empty line, in order, up to and including the first one carrying
\* last_seq; empty lines give no event.
C14_YieldsEachNonEmptyLine ==
    (feed.pc # "none" /\ FeedDecodable) =>
        /\ feed.pc # "raised"
        /\ IsPrefix(events, ExpectedEvents)
        /\ feed.pc = "done" => events = ExpectedEvents

\* A change, a heartbeat, the last_seq line: two events.
C14_Witness ==
    /\ stream = <<"{seq:1}", "", "{last_seq:2}">>
    /\ feed.pc = "done"
    /\ Len(events) = 2
    /\ events[2] = ("last_seq" :> 2)

\* C15: an event carrying last_seq is the last one yielded; by the time it
\* is yielded the body has been read to its end and none of the lines after
\* it has been decoded; a reader that has ended has read the whole body.
C15_LastSeqEndsFeed ==
    /\ \A i \in 1..Len(events) :
           "last_seq" \in DOMAIN events[i] =>
               /\ i = Len(events)
               /\ feed.pos = Len(stream)
               /\ feed.decoded = Len(events)
    /\ feed.pc = "done" => feed.pos = Len(stream)

\* Lines follow the last_seq line, one of them not even JSON.
C15_Witness ==
    /\ stream = <<"{seq:1}", "{last_seq:2}", "{seq:2}", "{">>
    /\ feed.pc = "done"
    /\ Len(events) = 2
    /\ feed.decoded = 2

\* C16: however the reader is left (its end, the consumer stopping early, an
\* error), a body it had acquired has been released.
C16_BodyReleasedOnEveryExit ==
    (feed.pc \in {"done", "closed", "raised"} /\ feed.acquired) => feed.released

(***************************************************************************)
(* Properties of FindQuery                                                 *)
(***************************************************************************)
\* C17: assigning None to an optional field removes its key and raises
\* nothing, also when the key is already absent (then the query is unchanged).
C17_UnsetRemovesKeyWithoutError ==
    fq.last.unset =>
        /\ fq.error = "none"
        /\ fq.d = DictWithout(fq.last.pre, {fq.last.op})

\* C18: no key of a built query maps to None, and selector is present.
C18_NoNullValues ==
    fq.pc = "built" =>
        /\ "selector" \in DOMAIN fq.d
        /\ \A k \in DOMAIN fq.d : ~IsNone(k, fq.d[k])

\* C19: a sort supplied as one pair, to the constructor or to the sort
\* property, is stored as the list of that pair; a supplied list of pairs is
\* stored as it is.
C19_SortStoredAsSequence ==
    /\ fq.last.sort.t = "dict" =>
           "sort" \in DOMAIN fq.d /\ fq.d["sort"] = SortList(<<fq.last.sort>>)
    /\ (fq.last.sort.t = "list" /\ fq.last.sort.v # <<>>) =>
           "sort" \in DOMAIN fq.d /\ fq.d["sort"] = fq.last.sort

(***************************************************************************)
(* Properties of _encode_view_options                                      *)
(***************************************************************************)
\* Every value json.dumps is applied to is one it accepts.
C20_Encodable ==
    \A name \in DOMAIN eout.input :
        (name \in KeyNames \/ eout.input[name].t \notin {"str", "bytes"})
            => JsonEncodable(eout.input[name])

\* C20: the encoder returns a dict with the names of its input; key, startkey
\* and endkey hold the JSON text of the input value, also for a str; any other
\* option holds the input value when that is a str or bytes and its JSON text
\* otherwise; the input dict is as it was.
C20_EncodesKeysAlways ==
    (eout.pc # "none" /\ C20_Encodable) =>
        /\ eout.pc = "returned"
        /\ DOMAIN eout.retval = DOMAIN eout.input
        /\ eopts = eout.input
        /\ \A name \in DOMAIN eout.input :
               LET arg == eout.input[name]
                   res == eout.retval[name]
               IN  /\ res.t \in {"str", "bytes"}
                   /\ IF name \in KeyNames \/ arg.t \notin {"str", "bytes"}
                      THEN res = JsonDumps(arg)
                      ELSE res = arg
                   /\ (name \in KeyNames /\ arg.t = "str") =>
                          /\ Len(res.v) >= Len(arg.v) + 2
                          /\ res.v[1] = "\"" /\ res.v[Len(res.v)] = "\""
                   /\ (arg.t = "int" /\ arg.v = 5) => res = Str(<<"5">>)
                   /\ (arg.t = "none") => res = Str(<<"n", "u", "l", "l">>)

\* The string "5" as key and as stale: quoted as key, as it is as stale.
C20_Witness ==
    /\ eout.pc = "returned"
    /\ DOMAIN eout.input = {"key", "stale"}
    /\ eout.input["key"] = Str(<<"5">>)
    /\ eout.input["stale"] = Str(<<"5">>)
    /\ eout.retval["key"] = Str(<<"\"", "5", "\"">>)
    /\ eout.retval["stale"] = Str(<<"5">>)

(***************************************************************************)
(* FindResponse.has_next_page and FindIterator.hasMorePages                *)
(***************************************************************************)
\* C30: the has_next_page of a page obtained through Find.execute equals the
\* hasMorePages flag the iterator computes from that page.
C30_HasNextPageEqualsHasMorePages ==
    \A i \in Iterators :
        hist[i].pages > 0 =>
            (FindResponse([docs |-> hist[i].page, bookmark |-> hist[i].pageBookmark],
                          DefaultLimit).has_next_page
                <=> its[i].hasMorePages)

(***************************************************************************)
(* Properties of CouchDBException.auto                                     *)
(***************************************************************************)
\* The error and reason auto takes from a response.
ClassifiedError == IF exc.body.json THEN exc.body.error ELSE "json"

ClassifiedReason == IF exc.body.json THEN exc.body.reason ELSE StatusReason[exc.status]

\* C23: auto picks the kind by the reason alone (conflict, unauthorized,
\* not_found, anything else generic) and the exception carries the body's
\* error and reason.
C23_KindFromReasonAlone ==
    exc.op = "auto" =>
        /\ exc.kind = (CASE ClassifiedReason = "conflict"     -> "DocumentConflictException"
                         [] ClassifiedReason = "unauthorized" -> "UnauthorizedException"
                         [] ClassifiedReason = "not_found"    -> "NotFoundException"
                         [] OTHER                             -> "CouchDBException")
        /\ exc.error = ClassifiedError
        /\ exc.reason = ClassifiedReason

\* error says conflict, reason says not_found: NotFoundException.
C23_Witness ==
    /\ exc.op = "auto"
    /\ exc.body = JsonBody("conflict", "not_found")
    /\ exc.kind = "NotFoundException"
    /\ exc.error = "conflict"

\* C24: an operation answered with a failed response whose body is not JSON
\* ends with a CouchDBException of error json whose reason names the status.
C24_InvalidBodyClassified ==
    (exc.op = "operation" /\ ~exc.body.json) =>
        /\ exc.kind \in CouchDBKinds
        /\ exc.error = "json"
        /\ exc.reason = StatusReason[exc.status]

\* C25: classifications leave the lookup table with its three entries.
C25_LookupTableUnchanged ==
    DOMAIN lookup_table = {"conflict", "unauthorized", "not_found"}

(***************************************************************************)
(* Properties of _call_viewlike and ViewResults                            *)
(***************************************************************************)
\* C21: a fetch makes exactly one request: a POST with only `keys` in its
\* JSON body and the other options, encoded, as parameters when the options
\* have `keys`, a GET with all options encoded otherwise; the options of the
\* caller are as they were.
C21_OneRequestKeysInBody ==
    vrlast.fetched =>
        LET req  == vrlast.request
            opts == vrlast.pre.options
        IN  /\ SumSeq(vreqs) = vrlast.nreq + 1
            /\ vres[vrlast.obj].options = opts
            /\ IF "keys" \in DOMAIN opts
               THEN /\ req.method = "POST"
                    /\ req.json = ("keys" :> opts["keys"])
                    /\ req.params = EncodeViewOptions(DictWithout(opts, {"keys"})).retval
                    /\ "keys" \notin DOMAIN req.params
               ELSE /\ req.method = "GET"
                    /\ req.json = EmptyDict
                    /\ req.params = EncodeViewOptions(opts).retval
            /\ ("limit" \in DOMAIN opts /\ opts["limit"] = Num(2)) =>
                   req.params["limit"] = Str(<<"2">>)

\* keys, stale and limit: a POST with keys in the body, two parameters.
C21_Witness ==
    /\ vrlast.fetched
    /\ DOMAIN vrlast.pre.options = {"keys", "stale", "limit"}
    /\ vrlast.request.method = "POST"
    /\ DOMAIN vrlast.request.params = {"stale", "limit"}
    /\ "keys" \in DOMAIN vres[vrlast.obj].options

\* C22: an access whose request is answered with a status that is not a
\* success ends with a CouchDBException.
C22_FailedPageRaisesCouchDBException ==
    (vrlast.op = "access" /\ vrlast.fetched /\ vstatus.status # 200) =>
        vrlast.outcome \in CouchDBKinds

\* C26: results[a:b] is a new object, not fetched, whose options have
\* startkey a and endkey b, and no startkey (endkey) when a (b) is absent;
\* the object sliced is as it was.
C26_SliceSetsBothBounds ==
    vrlast.op = "slice" =>
        LET new == vres[vrlast.obj]
        IN  /\ new._rows = PyNone
            /\ vres[vrlast.src] = vrlast.pre
            /\ IF vrlast.start = PyNone
               THEN "startkey" \notin DOMAIN new.options
               ELSE DictGet(new.options, "startkey") = vrlast.start
            /\ IF vrlast.stop = PyNone
               THEN "endkey" \notin DOMAIN new.options
               ELSE DictGet(new.options, "endkey") = vrlast.stop

\* C27: against a server that answers with pages, an object that was only
\* constructed or sliced has made no request, and one that has been
\* accessed, however often and through whichever accessor, has made one.
C27_OneRequestPerObject ==
    vstatus.status = 200 =>
        \A i \in 1..Len(vres) :
            vreqs[i] = (IF vres[i].accesses > 0 THEN 1 ELSE 0)

\* A slice of a slice, accessed twice, whose page has no rows.
C27_Witness ==
    /\ Len(vres) = 3
    /\ vres[3].accesses = 2
    /\ vres[3]._rows = List(<<>>)
    /\ vreqs[3] = 1
    /\ vres[2].accesses = 0
    /\ vreqs[2] = 0

\* C28: Database.get called with a default that is not None returns that
\* default exactly when the server answers 404, and then raises nothing;
\* when the document exists it returns the Document of the response, never
\* the default.
C28_DefaultExactlyOnNotFound ==
    (getr.outcome # "none" /\ getr.default # NoField) =>
        /\ (getr.outcome = "default") <=> (getr.status = 404)
        /\ getr.status = 200 => getr.outcome = "document"
        /\ getr.outcome # "HTTPError"

\* C29: a `del db[id]` that found the document ends with the document
\* deleted and without a conflict error, however the saves of another
\* client fall between its lookup and its delete.
C29_DeleteDespiteOtherEdits ==
    (delop.pc = "done" /\ delop.found) =>
        /\ delop.outcome = "deleted"
        /\ delop.status # 409

====
